---------------------------- MODULE Spec2Model ----------------------------
(***************************************************************************)
(* Model of the Lantern associative memory graph (LanternService,          *)
(* services/lanternService.ts): the node table, the edge list, ingest,     *)
(* createEdge, recall's time decay and the lines it returns, the pruning   *)
(* pass of saveGraph and its debounced write to localStorage.              *)
(*                                                                         *)
(* The specifications share the actions: Spec (ingest, recall and the     *)
(* clock, with id collisions), SpecPersist (with the timer callback and    *)
(* clock steps around the debounce window), SpecRecall (with contents and  *)
(* queries that exercise recall's matching), SpecLinks (three labels and   *)
(* edges at the weight recall compares with), SpecStartup (construction    *)
(* over each kind of persisted value), SpecWipe (the full wipes of         *)
(* localStorage made by the application) and SpecTurns (the calls of       *)
(* sendMessageToGemini, interleaved at their awaits).                      *)
(*                                                                         *)
(* Units.  The clock (Date.now()) is read in whole seconds.  A weight is   *)
(* an integer number of units of 1/1728000, the weight an edge loses in    *)
(* one second at DECAY_RATE = 0.05 per day (0.05 / 86400), so that the     *)
(* decay of line 146-147 is exact integer arithmetic: 1.0 is 1728000.      *)
(* One handler reads the clock once: the several Date.now() calls of one   *)
(* ingest are taken to return the same value.                              *)
(***************************************************************************)
EXTENDS Integers, Sequences, FiniteSets, TLC

(***************************************************************************)
(* Bounds of the model.                                                    *)
(***************************************************************************)
\* MAX_NODES is 200 in the source (line 4); the model scales the cap down.
MAX_NODES == 2
\* Number of ingest calls in a run.
MaxIngests == 3
\* Number of recall calls in a run.
MaxRecalls == 2
\* Number of times the clock advances in a run.
MaxTicks == 1
\* The longest single advance of the clock, in days.
MaxAdvDays == 10
\* Number of times the clock advances in a run with the timer callback.
MaxPersistTicks == 2
\* Number of recall calls in a run that looks at recall's result.
MaxQueryRecalls == 1
\* Number of ingest calls in a run that looks at recall's result.
MaxQueryIngests == 2
\* Number of sendMessageToGemini calls in a run.
MaxTurns == 2

(***************************************************************************)
(* Program constants, in the units above.                                  *)
(***************************************************************************)
SAVE_DEBOUNCE_MS == 2
msPerDay == 86400
\* Weight lost per second: DECAY_RATE (0.05 per day) in weight units.
DECAY_RATE == 1
W_ONE == 1728000
W_FLOOR == 172800
W_REINFORCE == 172800
W_TEMPORAL_FIRST == 1382400
W_TEMPORAL_STEP == 345600
\* 0.4, the weight an edge must exceed to be followed by recall (line 166).
W_LINK == 691200
\* recall keeps the query tokens longer than this (line 152).
MIN_TOKEN_LENGTH == 4

\* Values of the inputs.
Emotions == {"CURIOSITY", "NEUTRAL"}
Contents == {"CURIOSITY"}
NodeTypes == {"input", "emotion"}
Delays == {MaxAdvDays * msPerDay}
\* The arguments of recall where its result is not looked at: an empty
\* query and a label no ingest uses.
Queries == {""}
QueryEmotions == {"SURPRISE"}
\* The label of the ingests whose result is recalled or persisted.
IngestEmotions == {"CURIOSITY"}
\* Contents and queries for recall's matching: "night" is in "Night owl"
\* up to case, "nigh" has the minimum length, "curiosity" is in a label.
RecallContents == {"Night owl", ""}
RecallQueries == {"NIGHT", "nigh owls", "curiosity night"}
\* Clock advances around the debounce window, in seconds.
PersistDelays == {1, SAVE_DEBOUNCE_MS}

\* this.saveTimeout = null (line 14); the handles setTimeout returns are
\* positive integers.
NoHandle == 0
\* localStorage[LANTERN_KEY]: whether the key is there, the text it holds
\* ("graph" for the JSON text of the graph with the nodes and edges given)
Absent == [nodes |-> << >>, edges |-> << >>, present |-> FALSE, text |-> ""]
\* turns when no sendMessageToGemini call has been made.
NoTurns == [t \in 1..MaxTurns |-> [pc |-> "idle", message |-> "", emotion |-> ""]]
\* lastRecall before the first recall.
NoRecall == [query |-> "", label |-> "", entries |-> << >>, lines |-> << >>]

VARIABLES
  nodes,        \* graph.nodes: the node table, in key insertion order
  edges,        \* graph.edges
  saveTimeout,  \* this.saveTimeout: the handle of the last setTimeout
  timers,       \* the browser's pending timers: handle and due time
  stored,       \* localStorage[LANTERN_KEY]
  now,          \* Date.now()
  ticks,        \* number of clock advances so far
  history,      \* the ingest calls so far: inputs and returned id
  evicted,      \* the nodes the last saveGraph pass deleted
  calls,        \* the createEdge calls of the last ingest, in order
  preSweep,     \* the edge list of the last ingest before its pruning pass
  recalls,      \* number of recall calls so far
  lastRecall,   \* the last recall call: arguments, entry points, lines
  writes,       \* the localStorage.setItem calls so far: clock, outcome,
                \* ingests made, whether the update event was dispatched
  graphKind,    \* what this.graph holds: a graph, null, or a record
                \* without nodes and edges
  thrown,       \* the call that threw a TypeError last, "none" if none did
  turns,        \* the sendMessageToGemini calls: where each one stands
  wipedAt       \* ghost: the number of ingests before the last full wipe of
                \* localStorage, -1 if there was none

vars == <<nodes, edges, saveTimeout, timers, stored, now, ticks, history,
          evicted, calls, preSweep, recalls, lastRecall, writes, graphKind,
          thrown, turns, wipedAt>>

Min(a, b) == IF a < b THEN a ELSE b
Max(a, b) == IF a > b THEN a ELSE b

(***************************************************************************)
(* Node ids.  ingest builds Date.now().toString(36) + 5 random characters; *)
(* the id of a canonical emotion node is "emo_" + label.  The two forms    *)
(* never coincide (no "_" in base 36).                                     *)
(***************************************************************************)
RandomId(t, r) == [kind |-> "rnd", t |-> t, r |-> r, label |-> ""]
EmoId(label) == [kind |-> "emo", t |-> 0, r |-> 0, label |-> label]

\* Index of key id in the node table, 0 when absent.
NodeIdx(ns, id) ==
  IF \E i \in 1..Len(ns) : ns[i].id = id
  THEN CHOOSE i \in 1..Len(ns) : ns[i].id = id
  ELSE 0

HasNode(ns, id) == NodeIdx(ns, id) # 0

\* graph.nodes[id] = node: an existing key keeps its place in key order.
SetNode(ns, node) ==
  LET i == NodeIdx(ns, node.id)
  IN IF i = 0 THEN Append(ns, node) ELSE [ns EXCEPT ![i] = node]

\* Object.keys(nodes).find(k => type === 'emotion' && content === label)
FindEmotion(ns, label) ==
  LET hit(i) == ns[i].type = "emotion" /\ ns[i].content = label
  IN IF \E i \in 1..Len(ns) : hit(i)
     THEN CHOOSE i \in 1..Len(ns) : hit(i) /\ \A j \in 1..(i-1) : ~hit(j)
     ELSE 0

RECURSIVE InsertAsc(_, _)
InsertAsc(sorted, n) ==
  IF sorted = << >> THEN <<n>>
  ELSE IF Head(sorted).timestamp <= n.timestamp
       THEN <<Head(sorted)>> \o InsertAsc(Tail(sorted), n)
       ELSE <<n>> \o sorted

\* Array.prototype.sort by timestamp ascending (stable).
RECURSIVE SortAsc(_)
SortAsc(ns) ==
  IF ns = << >> THEN << >>
  ELSE InsertAsc(SortAsc(SubSeq(ns, 1, Len(ns) - 1)), ns[Len(ns)])

RECURSIVE InsertDesc(_, _)
InsertDesc(sorted, n) ==
  IF sorted = << >> THEN <<n>>
  ELSE IF Head(sorted).timestamp >= n.timestamp
       THEN <<Head(sorted)>> \o InsertDesc(Tail(sorted), n)
       ELSE <<n>> \o sorted

\* Array.prototype.sort by timestamp descending (stable).
RECURSIVE SortDesc(_)
SortDesc(ns) ==
  IF ns = << >> THEN << >>
  ELSE InsertDesc(SortDesc(SubSeq(ns, 1, Len(ns) - 1)), ns[Len(ns)])

\* Array.prototype.slice(0, k)
Slice(s, k) == SubSeq(s, 1, Min(Max(k, 0), Len(s)))

(***************************************************************************)
(* createEdge                                                              *)
(***************************************************************************)
\* Mutant of EdgeMatches: the reverse orientation is not looked for.
EdgeMatchesDirected(e, source, target) ==
  e.source = source /\ e.target = target

EdgeMatches(e, source, target) ==
  \/ e.source = source /\ e.target = target
  \/ e.source = target /\ e.target = source

\* edges.find(...): index of the first edge between the pair, 0 when none.
FindEdge(es, source, target) ==
  LET hit(i) == EdgeMatches(es[i], source, target)
  IN IF \E i \in 1..Len(es) : hit(i)
     THEN CHOOSE i \in 1..Len(es) : hit(i) /\ \A j \in 1..(i-1) : ~hit(j)
     ELSE 0

\* Mutant of CreateEdge: the reinforcement adds to the weight passed in.
CreateEdgeFromArgument(es, source, target, weight, type, t) ==
  LET i == FindEdge(es, source, target)
  IN IF i # 0
     THEN [es EXCEPT ![i].weight = Min(W_ONE, weight + W_REINFORCE),
                     ![i].lastReinforced = t]
     ELSE Append(es, [source |-> source, target |-> target, weight |-> weight,
                      type |-> type, createdAt |-> t, lastReinforced |-> t])

CreateEdge(es, source, target, weight, type, t) ==
  LET i == FindEdge(es, source, target)
  IN IF i # 0
     THEN [es EXCEPT ![i].weight = Min(W_ONE, es[i].weight + W_REINFORCE),
                     ![i].lastReinforced = t]
     ELSE Append(es, [source |-> source, target |-> target, weight |-> weight,
                      type |-> type, createdAt |-> t, lastReinforced |-> t])


RECURSIVE ApplyCalls(_, _, _)
\* The createEdge calls args, made in order at time t, on edge list es.
ApplyCalls(es, args, t) ==
  IF args = << >> THEN es
  ELSE ApplyCalls(CreateEdge(es, Head(args).source, Head(args).target,
                             Head(args).weight, Head(args).type, t),
                  Tail(args), t)

(***************************************************************************)
(* saveGraph, first half: the pruning pass (lines 32-42).                  *)
(***************************************************************************)
\* sorted.slice(0, nodeKeys.length - MAX_NODES)
ToRemove(ns) == Slice(SortAsc(ns), Len(ns) - MAX_NODES)

\* Mutant of Removable: the type is not tested.
RemovableAny(n) == TRUE

\* The test of line 38.
Removable(n) == n.type # "emotion"

\* The ids the forEach of lines 37-39 deletes.
RemovedIds(ns) ==
  IF Len(ns) > MAX_NODES
  THEN LET toRemove == ToRemove(ns)
       IN {toRemove[i].id : i \in {j \in 1..Len(toRemove) :
                                      Removable(toRemove[j])}}
  ELSE {}

\* Mutant of PruneNodes: no node is deleted.
PruneNodesKeep(ns) == ns

\* The node table after the pass of lines 33-40.
PruneNodes(ns) ==
  LET removed == RemovedIds(ns)
  IN SelectSeq(ns, LAMBDA n : n.id \notin removed)

\* Mutant of SweepEdges: the orphaned edges are kept.
SweepEdgesKeepAll(ns, es) == es

\* Line 41, run only when the table was over the cap.
SweepEdges(ns, es) ==
  LET ids == {ns[i].id : i \in 1..Len(ns)}
  IN SelectSeq(es, LAMBDA e : e.source \in ids /\ e.target \in ids)

PruneEdges(ns, es) ==
  IF Len(ns) > MAX_NODES THEN SweepEdges(PruneNodes(ns), es) ELSE es

(***************************************************************************)
(* saveGraph, second half: the debounced write (lines 44-57).              *)
(***************************************************************************)
\* Mutant of ClearTimeout: the pending callback is left in place.
ClearTimeoutKeep(ts, h) == ts

\* clearTimeout(h)
ClearTimeout(ts, h) == {t \in ts : t.id # h}

\* Lines 45-57 at time t with this.saveTimeout = h: the new callback gets
\* the next handle.
ScheduleSave(ts, h, t) ==
  (IF h # NoHandle THEN ClearTimeout(ts, h) ELSE ts)
    \cup {[id |-> h + 1, due |-> t + SAVE_DEBOUNCE_MS]}

(***************************************************************************)
(* ingest (lines 68-111)                                                   *)
(***************************************************************************)
\* Mutant of WithEmotion: the emotion node is stored whether or not the
\* table has one.
WithEmotionAlways(ns, label, t) ==
  SetNode(ns, [id |-> EmoId(label), type |-> "emotion", content |-> label,
               timestamp |-> t])

\* Lines 82-91: the id of the emotion node the new node is linked to.
EmotionIdFor(ns, label) ==
  LET i == FindEmotion(ns, label)
  IN IF i # 0 THEN ns[i].id ELSE EmoId(label)

WithEmotion(ns, label, t) ==
  IF FindEmotion(ns, label) # 0 THEN ns
  ELSE SetNode(ns, [id |-> EmoId(label), type |-> "emotion",
                    content |-> label, timestamp |-> t])

\* Mutant of RecentNodes: the emotion node is not left out.
RecentNodesWithEmotion(ns, id, emotionId) ==
  Slice(SortDesc(SelectSeq(ns, LAMBDA n : n.id # id)), 3)

\* Lines 98-101.
RecentNodes(ns, id, emotionId) ==
  Slice(SortDesc(SelectSeq(ns, LAMBDA n : n.id # id /\ n.id # emotionId)), 3)

\* Line 105.
TemporalWeight(index) == W_TEMPORAL_FIRST - index * W_TEMPORAL_STEP

\* The arguments of the createEdge calls of lines 94 and 103-107, in order.
EdgeCalls(ns, id, emotionId) ==
  LET recent == RecentNodes(ns, id, emotionId)
  IN <<[source |-> id, target |-> emotionId, weight |-> W_ONE,
        type |-> "emotional"]>>
     \o [i \in 1..Len(recent) |->
           [source |-> recent[i].id, target |-> id,
            weight |-> TemporalWeight(i - 1), type |-> "temporal"]]

Ingest(content, type, label, rnd) ==
  LET id == RandomId(now, rnd)
      n1 == SetNode(nodes, [id |-> id, type |-> type, content |-> content,
                            timestamp |-> now])
      emotionId == EmotionIdFor(n1, label)
      n2 == WithEmotion(n1, label, now)
      args == EdgeCalls(n2, id, emotionId)
      e2 == ApplyCalls(edges, args, now)
      pruned == PruneNodes(n2)
  IN /\ Len(history) < MaxIngests
     /\ nodes' = pruned
     /\ edges' = PruneEdges(n2, e2)
     /\ evicted' = {n2[i] : i \in {j \in 1..Len(n2) : ~HasNode(pruned, n2[j].id)}}
     /\ calls' = [i \in 1..Len(args) |->
                    [source |-> args[i].source, target |-> args[i].target,
                     weight |-> args[i].weight, type |-> args[i].type,
                     at |-> now]]
     /\ preSweep' = e2
     /\ history' = Append(history, [id |-> id, type |-> type,
                                    content |-> content, label |-> label,
                                    at |-> now])
     \* Lines 45-57: the pending write is cancelled and scheduled again.
     /\ saveTimeout' = saveTimeout + 1
     /\ timers' = ScheduleSave(timers, saveTimeout, now)
     /\ UNCHANGED <<stored, now, ticks, recalls, lastRecall, writes,
                    graphKind, thrown, wipedAt>>

(***************************************************************************)
(* recall, its decay step (lines 142-148).                                 *)
(***************************************************************************)
\* Mutant of Decayed: no floor.
DecayedNoFloor(e, t) ==
  [e EXCEPT !.weight = e.weight - (t - e.lastReinforced) * DECAY_RATE]

\* Mutant of Decayed: the elapsed time is taken with the wrong sign.
DecayedReversed(e, t) ==
  [e EXCEPT !.weight = Max(W_FLOOR, e.weight - (e.lastReinforced - t) * DECAY_RATE)]

\* Mutant of Decayed: the decay restarts the edge's clock.
DecayedRefresh(e, t) ==
  [e EXCEPT !.weight = Max(W_FLOOR, e.weight - (t - e.lastReinforced) * DECAY_RATE),
            !.lastReinforced = t]

Decayed(e, t) ==
  [e EXCEPT !.weight = Max(W_FLOOR, e.weight - (t - e.lastReinforced) * DECAY_RATE)]

(***************************************************************************)
(* Strings.  A string value is named by a TLA+ string; Chars gives its     *)
(* characters, on which toLowerCase, toUpperCase, split and includes work. *)
(***************************************************************************)
Chars(s) ==
  CASE s = "" -> << >>
    [] s = "CURIOSITY" -> <<"C", "U", "R", "I", "O", "S", "I", "T", "Y">>
    [] s = "NEUTRAL" -> <<"N", "E", "U", "T", "R", "A", "L">>
    [] s = "SURPRISE" -> <<"S", "U", "R", "P", "R", "I", "S", "E">>
    [] s = "Night owl" -> <<"N", "i", "g", "h", "t", " ", "o", "w", "l">>
    [] s = "NIGHT" -> <<"N", "I", "G", "H", "T">>
    [] s = "nigh owls" -> <<"n", "i", "g", "h", " ", "o", "w", "l", "s">>
    [] s = "curiosity night" ->
         <<"c", "u", "r", "i", "o", "s", "i", "t", "y", " ", "n", "i", "g",
           "h", "t">>
    [] s = "Hi" -> <<"H", "i">>
    [] s = "input" -> <<"i", "n", "p", "u", "t">>
    [] s = "output" -> <<"o", "u", "t", "p", "u", "t">>
    [] s = "emotion" -> <<"e", "m", "o", "t", "i", "o", "n">>
    [] s = "temporal" -> <<"t", "e", "m", "p", "o", "r", "a", "l">>
    [] s = "emotional" -> <<"e", "m", "o", "t", "i", "o", "n", "a", "l">>
    [] s = "[" -> <<"[">>
    [] s = ": " -> <<":", " ">>
    [] s = "]" -> <<"]">>
    [] s = "- Linked Context (" ->
         <<"-", " ", "L", "i", "n", "k", "e", "d", " ", "C", "o", "n", "t",
           "e", "x", "t", " ", "(">>
    [] s = "): " -> <<")", ":", " ">>

Upper ==
  <<"A", "B", "C", "D", "E", "F", "G", "H", "I", "J", "K", "L", "M",
    "N", "O", "P", "Q", "R", "S", "T", "U", "V", "W", "X", "Y", "Z">>
Lower ==
  <<"a", "b", "c", "d", "e", "f", "g", "h", "i", "j", "k", "l", "m",
    "n", "o", "p", "q", "r", "s", "t", "u", "v", "w", "x", "y", "z">>

\* The character of table to at the place c has in table from; c itself
\* when it is not in from.
MapChar(c, from, to) ==
  IF \E i \in 1..Len(from) : from[i] = c
  THEN to[CHOOSE i \in 1..Len(from) : from[i] = c]
  ELSE c

\* String.prototype.toLowerCase
ToLowerCase(cs) == [i \in 1..Len(cs) |-> MapChar(cs[i], Upper, Lower)]

\* String.prototype.toUpperCase
ToUpperCase(cs) == [i \in 1..Len(cs) |-> MapChar(cs[i], Lower, Upper)]

\* String.prototype.split(' ')
RECURSIVE Split(_)
Split(cs) ==
  IF \E i \in 1..Len(cs) : cs[i] = " "
  THEN LET k == CHOOSE i \in 1..Len(cs) :
                  cs[i] = " " /\ \A j \in 1..(i-1) : cs[j] # " "
       IN <<SubSeq(cs, 1, k - 1)>> \o Split(SubSeq(cs, k + 1, Len(cs)))
  ELSE <<cs>>

\* String.prototype.includes
Includes(hay, needle) ==
  \E k \in 0..(Len(hay) - Len(needle)) :
    SubSeq(hay, k + 1, k + Len(needle)) = needle

(***************************************************************************)
(* recall (lines 140-179).  recall does not call saveGraph.                *)
(***************************************************************************)
\* Mutant of KeepToken: tokens of the minimum length are kept too.
KeepTokenFrom(t) == Len(t) >= MIN_TOKEN_LENGTH

\* The filter of line 152.
KeepToken(t) == Len(t) > MIN_TOKEN_LENGTH

\* Line 152.
Tokens(currentInput) ==
  SelectSeq(Split(ToLowerCase(Chars(currentInput))), KeepToken)

\* The contents, queries and labels of the model, with their tokens and
\* their lower-case forms tabulated.
Strings ==
  {"", "CURIOSITY", "NEUTRAL", "SURPRISE", "Night owl", "NIGHT", "nigh owls",
   "curiosity night", "Hi"}

TokensOf == [s \in Strings |-> Tokens(s)]

LowerCaseOf == [s \in Strings |-> ToLowerCase(Chars(s))]

\* Mutant of IsEntryPoint: the emotion node of the current label is no
\* entry point unless a token matches it.
IsEntryPointByToken(n, tokens, currentEmotion) ==
  \E i \in 1..Len(tokens) :
    Includes(LowerCaseOf[n.content], tokens[i])

\* The filter of lines 153-156.
IsEntryPoint(n, tokens, currentEmotion) ==
  \/ n.type = "emotion" /\ n.content = currentEmotion
  \/ \E i \in 1..Len(tokens) :
       Includes(LowerCaseOf[n.content], tokens[i])

EntryPoints(ns, currentInput, currentEmotion) ==
  LET tokens == TokensOf[currentInput]
  IN SelectSeq(ns, LAMBDA n : IsEntryPoint(n, tokens, currentEmotion))

\* Line 162.
EntryLine(entry) ==
  Chars("[") \o ToUpperCase(Chars(entry.type)) \o Chars(": ")
    \o Chars(entry.content) \o Chars("]")

\* Line 173.
LinkLine(e, other) ==
  Chars("- Linked Context (") \o Chars(e.type) \o Chars("): ")
    \o Chars(other.content)

\* Mutant of Relevant: an edge of weight 0.4 is followed.
RelevantFrom(e, id) == (e.source = id \/ e.target = id) /\ e.weight >= W_LINK

\* The filter of lines 165-167.
Relevant(e, id) == (e.source = id \/ e.target = id) /\ e.weight > W_LINK

\* Line 170.
OtherId(e, id) == IF e.source = id THEN e.target ELSE e.source

\* Lines 162-175 for one entry point: the strings handed to contextSet.add,
\* in order.
EntryLines(ns, es, entry) ==
  LET relevantEdges ==
        SelectSeq(es, LAMBDA e : Relevant(e, entry.id)
                                   /\ HasNode(ns, OtherId(e, entry.id)))
  IN <<EntryLine(entry)>>
     \o [i \in 1..Len(relevantEdges) |->
           LinkLine(relevantEdges[i],
                    ns[NodeIdx(ns, OtherId(relevantEdges[i], entry.id))])]

\* Mutant of SetAdd: the string is appended even when it is there.
SetAddAgain(set, x) == Append(set, x)

\* Mutant of SetAdd: a new string goes to the front.
SetAddFront(set, x) ==
  IF \E i \in 1..Len(set) : set[i] = x THEN set ELSE <<x>> \o set

\* Set.prototype.add: a Set keeps its members in insertion order.
SetAdd(set, x) ==
  IF \E i \in 1..Len(set) : set[i] = x THEN set ELSE Append(set, x)

RECURSIVE AddAll(_, _)
AddAll(set, xs) ==
  IF xs = << >> THEN set ELSE AddAll(SetAdd(set, Head(xs)), Tail(xs))

RECURSIVE ContextSet(_, _, _, _)
\* The forEach of line 161 over entryPoints, starting from contextSet = set.
ContextSet(ns, es, entryPoints, set) ==
  IF entryPoints = << >> THEN set
  ELSE ContextSet(ns, es, Tail(entryPoints),
                  AddAll(set, EntryLines(ns, es, Head(entryPoints))))

\* Array.from(contextSet): the lines recall joins with "\n" and returns;
\* the returned string is empty exactly when there is no line.
RecallLines(ns, es, currentInput, currentEmotion) ==
  ContextSet(ns, es, EntryPoints(ns, currentInput, currentEmotion), << >>)

Recall(currentInput, currentEmotion) ==
  LET decayed == [i \in 1..Len(edges) |-> Decayed(edges[i], now)]
      entryPoints == EntryPoints(nodes, currentInput, currentEmotion)
  IN /\ recalls < MaxRecalls
     /\ edges' = decayed
     /\ recalls' = recalls + 1
     /\ lastRecall' = [query |-> currentInput, label |-> currentEmotion,
                       entries |-> [i \in 1..Len(entryPoints) |->
                                      entryPoints[i].id],
                       lines |-> RecallLines(nodes, decayed, currentInput,
                                             currentEmotion)]
     /\ UNCHANGED <<nodes, saveTimeout, timers, stored, now, ticks, history,
                    evicted, calls, preSweep, writes,
                    graphKind, thrown, wipedAt>>

(***************************************************************************)
(* The setTimeout callback of lines 49-57.                                 *)
(***************************************************************************)
\* The callback of timer t runs; setItem succeeds and the event is
\* dispatched.  this.saveTimeout keeps the handle.
PersistOk(t) ==
  /\ now >= t.due
  /\ stored' = [nodes |-> nodes, edges |-> edges, present |-> TRUE,
                text |-> "graph"]
  /\ timers' = timers \ {t}
  \* Line 53: the event is dispatched after the setItem that succeeded.
  /\ writes' = Append(writes, [at |-> now, ok |-> TRUE, n |-> Len(history),
                               event |-> TRUE])
  /\ UNCHANGED <<nodes, edges, saveTimeout, now, ticks, history, evicted,
                 calls, preSweep, recalls, lastRecall,
                 graphKind, thrown, turns, wipedAt>>

\* Mutant of PersistFail: the failed write empties the graph.
PersistFailReset(t) ==
  /\ now >= t.due
  /\ nodes' = << >>
  /\ edges' = << >>
  /\ timers' = timers \ {t}
  /\ writes' = Append(writes, [at |-> now, ok |-> FALSE, n |-> Len(history),
                               event |-> FALSE])
  /\ UNCHANGED <<saveTimeout, stored, now, ticks, history, evicted, calls,
                 preSweep, recalls, lastRecall,
                 graphKind, thrown, turns, wipedAt>>

\* The callback of timer t runs; localStorage.setItem throws (quota
\* exceeded), caught at line 54: nothing is stored, no event is dispatched.
PersistFail(t) ==
  /\ now >= t.due
  /\ timers' = timers \ {t}
  /\ writes' = Append(writes, [at |-> now, ok |-> FALSE, n |-> Len(history),
                               event |-> FALSE])
  /\ UNCHANGED <<nodes, edges, saveTimeout, stored, now, ticks, history,
                 evicted, calls, preSweep, recalls, lastRecall,
                 graphKind, thrown, turns, wipedAt>>

\* The clock advances by d between handlers.
Advance(d) ==
  /\ now' = now + d
  /\ ticks' = ticks + 1
  /\ UNCHANGED <<nodes, edges, saveTimeout, timers, stored, history, evicted,
                 calls, preSweep, recalls, lastRecall, writes,
                 graphKind, thrown, turns, wipedAt>>

Tick(d) == ticks < MaxTicks /\ Advance(d)

\* The state after construction with nothing persisted (lines 16-28).
Init ==
  /\ nodes = << >>
  /\ edges = << >>
  /\ saveTimeout = NoHandle
  /\ timers = {}
  /\ stored = Absent
  /\ now = 0
  /\ ticks = 0
  /\ history = << >>
  /\ evicted = {}
  /\ calls = << >>
  /\ preSweep = << >>
  /\ recalls = 0
  /\ lastRecall = NoRecall
  /\ writes = << >>
  /\ graphKind = "graph"
  /\ thrown = "none"
  /\ turns = NoTurns
  /\ wipedAt = -1

\* The random suffixes drawn so far at clock value t.
SuffixesAt(t) ==
  {history[i].id.r : i \in {j \in 1..Len(history) : history[j].at = t}}

\* Math.random(): suffixes are only ever compared for equality, so the k-th
\* new suffix drawn at one clock value is named k; a draw either repeats one
\* of the suffixes already drawn at this clock value or is new.
RandomSuffixes == 0..Cardinality(SuffixesAt(now))

\* The type and contextEmotion of an ingest: an input under either label,
\* and a node of type emotion whose content is its label.
IngestKinds ==
  {<<"input", "CURIOSITY">>, <<"input", "NEUTRAL">>,
   <<"emotion", "CURIOSITY">>}

IngestAny ==
  /\ \E content \in Contents, kind \in IngestKinds, rnd \in RandomSuffixes :
       Ingest(content, kind[1], kind[2], rnd)
  /\ UNCHANGED turns

TickAny == \E d \in Delays : Tick(d)

RecallAny ==
  /\ \E currentInput \in Queries, currentEmotion \in QueryEmotions :
       Recall(currentInput, currentEmotion)
  /\ UNCHANGED turns

\* The graph operations.  The timer callback writes only stored, timers and
\* writes, which no graph operation reads.
Next ==
  \/ IngestAny
  \/ RecallAny
  \/ TickAny

Spec == Init /\ [][Next]_vars

(***************************************************************************)
(* The graph operations with the timer callback, the clock advancing by    *)
(* less than the debounce window and by the window; every id drawn is new. *)
(***************************************************************************)
IngestPersistAny ==
  /\ \E content \in Contents, label \in IngestEmotions :
       Ingest(content, "input", label, Cardinality(SuffixesAt(now)))
  /\ UNCHANGED turns

\* The clock is read in seconds and a timer is late by milliseconds: the
\* clock does not move past the due time of a pending callback.
PersistTick(d) ==
  /\ ticks < MaxPersistTicks
  /\ \A t \in timers : now + d <= t.due
  /\ Advance(d)

PersistTickAny == \E d \in PersistDelays : PersistTick(d)

PersistOkAny == \E t \in timers : PersistOk(t)

PersistFailAny == \E t \in timers : PersistFail(t)

NextPersist ==
  \/ IngestPersistAny
  \/ RecallAny
  \/ PersistTickAny
  \/ PersistOkAny
  \/ PersistFailAny

SpecPersist == Init /\ [][NextPersist]_vars

(***************************************************************************)
(* Construction over a persisted value (lines 16-28) and the first calls.  *)
(***************************************************************************)
\* A text stored under the key that is not the JSON text of a graph.
StoredText(text) ==
  [nodes |-> << >>, edges |-> << >>, present |-> TRUE, text |-> text]

\* The record an earlier session stored after one ingest at clock value 0.
SavedNodes ==
  WithEmotion(SetNode(<< >>, [id |-> RandomId(0, 0), type |-> "input",
                              content |-> "CURIOSITY", timestamp |-> 0]),
              "CURIOSITY", 0)

SavedGraph ==
  [nodes |-> SavedNodes,
   edges |-> ApplyCalls(<< >>, EdgeCalls(SavedNodes, RandomId(0, 0),
                                         EmoId("CURIOSITY")), 0),
   present |-> TRUE, text |-> "graph"]

\* The persisted values: no key, the empty text, a text that is not JSON,
\* the JSON texts null and {}, and the JSON text of a graph.
PersistedValues ==
  {Absent, StoredText(""), StoredText("{nodes"), StoredText("null"),
   StoredText("{}"), SavedGraph}

\* JSON.parse: what it returns, or that it throws a SyntaxError.
JsonParse(text) ==
  CASE text = "graph" -> "graph"
    [] text = "null" -> "null"
    [] text = "{}" -> "record"
    [] OTHER -> "SyntaxError"

\* loadGraph (lines 20-28): stored ? JSON.parse(stored) : the empty graph,
\* and the empty graph when JSON.parse throws.
LoadGraph(st) ==
  IF ~st.present \/ st.text = "" \/ JsonParse(st.text) = "SyntaxError"
  THEN [kind |-> "graph", nodes |-> << >>, edges |-> << >>]
  ELSE [kind |-> JsonParse(st.text), nodes |-> st.nodes, edges |-> st.edges]

\* The state after construction over a persisted value, a debounce window
\* after the clock value of the earlier session.
InitStartup ==
  /\ \E st \in PersistedValues :
       /\ stored = st
       /\ nodes = LoadGraph(st).nodes
       /\ edges = LoadGraph(st).edges
       /\ graphKind = LoadGraph(st).kind
  /\ saveTimeout = NoHandle
  /\ timers = {}
  /\ now = SAVE_DEBOUNCE_MS
  /\ ticks = 0
  /\ history = << >>
  /\ evicted = {}
  /\ calls = << >>
  /\ preSweep = << >>
  /\ recalls = 0
  /\ lastRecall = NoRecall
  /\ writes = << >>
  /\ thrown = "none"
  /\ turns = NoTurns
  /\ wipedAt = -1

\* A call of ingest or recall on a value that is not a graph: line 78
\* assigns to, and line 145 reads, a property of null or undefined.
Throws(call) ==
  /\ graphKind # "graph"
  /\ thrown' = call
  /\ UNCHANGED <<nodes, edges, saveTimeout, timers, stored, now, ticks,
                 history, evicted, calls, preSweep, recalls, lastRecall,
                 writes, graphKind, turns, wipedAt>>

StartIngestAny == graphKind = "graph" /\ IngestPersistAny

StartRecallAny == graphKind = "graph" /\ RecallAny

IngestThrows == Throws("ingest")

RecallThrows == Throws("recall")

NextStartup ==
  \/ StartIngestAny
  \/ StartRecallAny
  \/ IngestThrows
  \/ RecallThrows
  \/ TickAny

SpecStartup == InitStartup /\ [][NextStartup]_vars

(***************************************************************************)
(* The full wipes of localStorage made outside the service.                *)
(***************************************************************************)
\* handleEmergencyShutdown (App.tsx lines 87-92): localStorage.clear() and
\* two React state updates; the page, the service object and its pending
\* timer stay.
EmergencyShutdown ==
  /\ stored' = Absent
  /\ wipedAt' = Len(history)
  /\ UNCHANGED <<nodes, edges, saveTimeout, timers, now, ticks, history,
                 evicted, calls, preSweep, recalls, lastRecall, writes,
                 graphKind, thrown, turns>>

\* handleFactoryReset (lines 40-46): localStorage.clear() and a reload of
\* the page, which drops the timers and constructs the service again.
FactoryReset ==
  /\ stored' = Absent
  /\ wipedAt' = Len(history)
  /\ nodes' = LoadGraph(Absent).nodes
  /\ edges' = LoadGraph(Absent).edges
  /\ graphKind' = LoadGraph(Absent).kind
  /\ saveTimeout' = NoHandle
  /\ timers' = {}
  /\ UNCHANGED <<now, ticks, history, evicted, calls, preSweep, recalls,
                 lastRecall, writes, thrown, turns>>

NextWipe ==
  \/ IngestPersistAny
  \/ PersistTickAny
  \/ PersistOkAny
  \/ EmergencyShutdown
  \/ FactoryReset

SpecWipe == Init /\ [][NextWipe]_vars

(***************************************************************************)
(* The graph operations under three labels, with the clock advancing by    *)
(* the times in which the first two temporal links decay to the weight     *)
(* recall compares with: ingests that leave edges of weight 0.4 and        *)
(* recalls that meet them.  Every id drawn is new.                         *)
(***************************************************************************)
LinkEmotions == {"CURIOSITY", "NEUTRAL", "SURPRISE"}
\* The content and contextEmotion of an ingest.
LinkKinds ==
  {<<"Night owl", "CURIOSITY">>, <<"Hi", "NEUTRAL">>, <<"Hi", "SURPRISE">>}
LinkQueries == {"NIGHT"}
LinkDelays ==
  {(TemporalWeight(i) - W_LINK) \div DECAY_RATE : i \in {0, 1}}

\* The ingests explored are those before the first recall.
IngestLinkAny ==
  /\ recalls = 0
  /\ \E kind \in LinkKinds :
       Ingest(kind[1], "input", kind[2], Cardinality(SuffixesAt(now)))
  /\ UNCHANGED turns

RecallLinkAny ==
  /\ recalls < MaxQueryRecalls
  /\ \E currentInput \in LinkQueries, currentEmotion \in LinkEmotions :
       Recall(currentInput, currentEmotion)
  /\ UNCHANGED turns

LinkTickAny == \E d \in LinkDelays : Tick(d)

NextLinks ==
  \/ IngestLinkAny
  \/ RecallLinkAny
  \/ LinkTickAny

SpecLinks == Init /\ [][NextLinks]_vars

(***************************************************************************)
(* The conversation turns: sendMessageToGemini (geminiService.ts lines     *)
(* 251-444) called again while earlier calls wait for the model's reply.   *)
(* A call runs without interruption from its start to its first await and  *)
(* from the reply to its return; other calls run and the clock advances    *)
(* only while no call is running.  The timer callback writes only stored,  *)
(* timers and writes, which no call reads.                                 *)
(***************************************************************************)
\* The user's messages and the model's replies, none of which holds a
\* keyword of the sentinel check (lines 268 and 376).
TurnMessages == {"Hi", "Night owl"}
Replies == {"Night owl"}

\* A call is between its ingest of line 278 and its recall of line 282.
Busy == \E t \in 1..MaxTurns : turns[t].pc = "ingested"

\* Line 278.  The calls are numbered in the order they are made.
TurnIngest(t, message, emotion) ==
  /\ ~Busy
  /\ turns[t].pc = "idle"
  /\ IF t = 1 THEN TRUE ELSE turns[t - 1].pc # "idle"
  /\ Ingest(message, "input", emotion, Cardinality(SuffixesAt(now)))
  /\ turns' = [turns EXCEPT ![t] = [pc |-> "ingested", message |-> message,
                                    emotion |-> emotion]]

\* Line 282, then the call waits at the await of line 289 or 361.
TurnRecall(t) ==
  /\ turns[t].pc = "ingested"
  /\ Recall(turns[t].message, turns[t].emotion)
  /\ turns' = [turns EXCEPT ![t].pc = "awaiting"]

\* Line 437: the reply is ingested under newEmotion || currentEmotion.
TurnReply(t, rawText, label) ==
  /\ ~Busy
  /\ turns[t].pc = "awaiting"
  /\ Ingest(rawText, "output", label, Cardinality(SuffixesAt(now)))
  /\ turns' = [turns EXCEPT ![t].pc = "done"]

\* The request fails (catch of line 441) or the reply is scrubbed (lines
\* 376-382): the call returns without a second ingest.
TurnFail(t) ==
  /\ ~Busy
  /\ turns[t].pc = "awaiting"
  /\ turns' = [turns EXCEPT ![t].pc = "done"]
  /\ UNCHANGED <<nodes, edges, saveTimeout, timers, stored, now, ticks,
                 history, evicted, calls, preSweep, recalls, lastRecall,
                 writes, graphKind, thrown, wipedAt>>

TurnIngestAny ==
  \E t \in 1..MaxTurns, message \in TurnMessages, emotion \in Emotions :
    TurnIngest(t, message, emotion)

TurnRecallAny == \E t \in 1..MaxTurns : TurnRecall(t)

TurnReplyAny ==
  \E t \in 1..MaxTurns, rawText \in Replies, label \in Emotions :
    TurnReply(t, rawText, label)

TurnFailAny == \E t \in 1..MaxTurns : TurnFail(t)

TurnTickAny == ~Busy /\ TickAny

NextTurns ==
  \/ TurnIngestAny
  \/ TurnRecallAny
  \/ TurnReplyAny
  \/ TurnFailAny
  \/ TurnTickAny

SpecTurns == Init /\ [][NextTurns]_vars

(***************************************************************************)
(* The graph operations with contents and queries that exercise recall's   *)
(* matching; every id drawn is new.                                        *)
(***************************************************************************)
IngestRecallAny ==
  /\ Len(history) < MaxQueryIngests
  /\ \E content \in RecallContents, type \in NodeTypes,
        label \in IngestEmotions :
       Ingest(content, type, label, Cardinality(SuffixesAt(now)))
  /\ UNCHANGED turns

RecallQueryAny ==
  /\ recalls < MaxQueryRecalls
  /\ \E currentInput \in RecallQueries, currentEmotion \in Emotions :
       Recall(currentInput, currentEmotion)
  /\ UNCHANGED turns

NextRecall ==
  \/ IngestRecallAny
  \/ RecallQueryAny
  \/ TickAny

SpecRecall == Init /\ [][NextRecall]_vars

(***************************************************************************)
(* Properties                                                              *)
(***************************************************************************)
EdgeIdx == 1..Len(edges)
NodeIds == {nodes[i].id : i \in 1..Len(nodes)}
EvictedIds == {n.id : n \in evicted}
AllInputs == \A i \in 1..Len(history) : history[i].type # "emotion"
DistinctIds ==
  \A i, j \in 1..Len(history) : i # j => history[i].id # history[j].id

\* C1: after every ingest the node table holds at most MAX_NODES nodes.
C1_Capacity == Len(nodes) <= MAX_NODES

\* C2: after MAX_NODES + k ingests (k >= 1) of non-emotion nodes with
\* distinct ids into the empty graph exactly MAX_NODES nodes remain, the k
\* oldest ingested nodes are gone and no edge references any of them.
C2_ScenarioC ==
  (Len(history) > MAX_NODES /\ AllInputs /\ DistinctIds) =>
    /\ Len(nodes) = MAX_NODES
    /\ \A i \in 1..(Len(history) - MAX_NODES) :
         /\ history[i].id \notin NodeIds
         /\ \A e \in EdgeIdx : /\ edges[e].source # history[i].id
                               /\ edges[e].target # history[i].id

\* C3: both endpoints of every edge are ids of nodes in the node table.
C3_NoDanglingEdges ==
  \A e \in EdgeIdx : edges[e].source \in NodeIds /\ edges[e].target \in NodeIds

\* C3 witness: the last pruning pass deleted a node that an edge referenced.
C3_Witness ==
  /\ evicted # {}
  /\ \E i \in 1..Len(preSweep) :
       preSweep[i].source \in EvictedIds \/ preSweep[i].target \in EvictedIds

\* C4: the node table holds at most one node of type emotion per label
\* (content).
C4_EmotionCanonical ==
  \A i, j \in 1..Len(nodes) :
    (/\ nodes[i].type = "emotion" /\ nodes[j].type = "emotion"
     /\ nodes[i].content = nodes[j].content) => i = j

\* C5: the ids returned by ingest are pairwise distinct.
C5_IdsUnique == DistinctIds

\* C6: no pruning pass deletes a node of type emotion.
C6_EmotionExempt == \A n \in evicted : n.type # "emotion"

\* C6 witness: a pass deleted a node and kept a strictly older emotion node.
C6_Witness ==
  \E n \in evicted : \E i \in 1..Len(nodes) :
    nodes[i].type = "emotion" /\ nodes[i].timestamp < n.timestamp

\* C7: every edge weight lies in [0.1, 1.0].
C7_WeightBounds ==
  \A e \in EdgeIdx : W_FLOOR <= edges[e].weight /\ edges[e].weight <= W_ONE

\* C7 witness: decay has floored one edge, and another edge, reinforced at
\* full weight and decayed since, lies strictly inside the bounds.
C7_Witness ==
  /\ recalls > 0
  /\ \E e \in EdgeIdx : edges[e].weight = W_FLOOR
  /\ \E e \in EdgeIdx : W_FLOOR < edges[e].weight /\ edges[e].weight < W_ONE

\* The unordered pair of endpoints of an edge or of a createEdge call.
Pair(x) == {x.source, x.target}

UniquePairs(es) ==
  \A i, j \in 1..Len(es) : i # j => Pair(es[i]) # Pair(es[j])

\* The step is an ingest.
IngestStep == history' # history

\* C8: the edge list holds at most one edge per unordered pair of node ids,
\* after the createEdge calls of an ingest and after its pruning pass, and a
\* createEdge call for a pair that is already linked leaves exactly one edge
\* for the pair, with a weight not below the one it had.
C8_UndirectedIdentity ==
  [][/\ UniquePairs(edges')
     /\ UniquePairs(preSweep')
     /\ IngestStep =>
          \A c \in 1..Len(calls') : \A i \in 1..Len(edges) :
            Pair(edges[i]) = Pair(calls'[c]) =>
              /\ Cardinality({k \in 1..Len(preSweep') :
                                Pair(preSweep'[k]) = Pair(calls'[c])}) = 1
              /\ Pair(preSweep'[i]) = Pair(calls'[c])
              /\ preSweep'[i].weight >= edges[i].weight]_vars

\* C8 witness: a createEdge call found the pair linked in the other
\* orientation (an edge the call inserts has the call's source as source).
C8_Witness ==
  /\ calls # << >>
  /\ \E c \in 1..Len(calls) : \E i \in 1..Len(preSweep) :
       /\ preSweep[i].source = calls[c].target
       /\ preSweep[i].target = calls[c].source
       /\ calls[c].source # calls[c].target

\* C9: a createEdge call for a pair that already has an edge, in either
\* orientation, sets that edge's weight to min(1.0, old weight + 0.1) and its
\* lastReinforced to now, and changes nothing else: the weight and type
\* passed in are ignored, the edge's type, createdAt and endpoints stay as
\* they were, no edge is added for the pair, and the edges no call of the
\* ingest names stay as they were.
C9_Reinforcement ==
  [][IngestStep =>
       /\ \A c \in 1..Len(calls') : \A i \in 1..Len(edges) :
            Pair(edges[i]) = Pair(calls'[c]) =>
              /\ preSweep'[i].weight = Min(W_ONE, edges[i].weight + W_REINFORCE)
              /\ preSweep'[i].lastReinforced = calls'[c].at
              /\ preSweep'[i].type = edges[i].type
              /\ preSweep'[i].createdAt = edges[i].createdAt
              /\ preSweep'[i].source = edges[i].source
              /\ preSweep'[i].target = edges[i].target
       /\ \A i \in 1..Len(edges) :
            (\A c \in 1..Len(calls') : Pair(edges[i]) # Pair(calls'[c]))
            => preSweep'[i] = edges[i]
       /\ Len(preSweep') = Len(edges) +
            Cardinality({c \in 1..Len(calls') :
                           \A i \in 1..Len(edges) :
                             Pair(edges[i]) # Pair(calls'[c])})]_vars

\* C9 witness: a createEdge call reinforced, without reaching the cap, an
\* edge in the other orientation and of another type than the one passed in
\* (an edge the call inserts has the call's type).
C9_Witness ==
  \E c \in 1..Len(calls) : \E i \in 1..Len(preSweep) :
    /\ Pair(preSweep[i]) = Pair(calls[c])
    /\ preSweep[i].type # calls[c].type
    /\ preSweep[i].source = calls[c].target
    /\ preSweep[i].weight < W_ONE
    /\ preSweep[i].weight # calls[c].weight

\* The createEdge calls of this step, when the step is an ingest.
StepCalls == IF IngestStep THEN calls' ELSE << >>

\* C10: in every step, an edge that stays in the list and that no createEdge
\* call of the step reinforces does not gain weight, and a recall leaves
\* every edge in place with a weight not above the one it had and not below
\* the floor 0.1.
C10_DecayMonotone ==
  [][/\ \A i \in 1..Len(edges) : \A j \in 1..Len(edges') :
          (/\ Pair(edges'[j]) = Pair(edges[i])
           /\ \A c \in 1..Len(StepCalls) : Pair(StepCalls[c]) # Pair(edges[i]))
          => edges'[j].weight <= edges[i].weight
     /\ recalls' # recalls =>
          /\ Len(edges') = Len(edges)
          /\ \A i \in 1..Len(edges) :
               /\ edges'[i].weight <= edges[i].weight
               /\ edges'[i].weight >= W_FLOOR
               /\ Pair(edges'[i]) = Pair(edges[i])]_vars

\* C10 witness: after two recalls an edge that was never reinforced has lost
\* weight and is still above the floor, and another has reached the floor.
C10_Witness ==
  /\ recalls >= 2
  /\ \E e \in EdgeIdx : /\ edges[e].type = "emotional"
                        /\ edges[e].lastReinforced = edges[e].createdAt
                        /\ edges[e].weight < W_ONE
                        /\ edges[e].weight > W_FLOOR
  /\ \E e \in EdgeIdx : /\ edges[e].lastReinforced = edges[e].createdAt
                        /\ edges[e].weight = W_FLOOR

\* A step of recall.
RecallStep == recalls' # recalls

\* The weight an edge reinforced last at time t with weight w has at time u.
WeightAt(w, t, u) == Max(W_FLOOR, w - (u - t) * DECAY_RATE)

\* C11: the weight recall leaves on an edge depends only on the weight the
\* edge had at its last reinforcement and on the time since, not on the
\* recalls in between.  An emotional edge never reinforced after the clock
\* value of its creation had weight 1.0 then, so every recall leaves it at
\* 1.0 less the decay of the time since, floored at 0.1.
C11_LazyDecay ==
  [][RecallStep =>
       \A i \in 1..Len(edges') :
         (/\ edges'[i].type = "emotional"
          /\ edges'[i].lastReinforced = edges'[i].createdAt)
         => edges'[i].weight = WeightAt(W_ONE, edges'[i].lastReinforced, now)
    ]_vars

\* C12: a recall leaves the node table, the number of edges and every
\* field of every edge but its weight as they were; and a step after which
\* a node id or an edge between a pair of nodes is gone is an ingest whose
\* pruning pass deleted that node, or an endpoint of that edge.
C12_DecayRemovesNothing ==
  [][/\ RecallStep =>
          /\ nodes' = nodes
          /\ Len(edges') = Len(edges)
          /\ \A i \in 1..Len(edges) :
               edges'[i] = [edges[i] EXCEPT !.weight = edges'[i].weight]
     /\ \A i \in 1..Len(nodes) :
          ~HasNode(nodes', nodes[i].id) =>
            IngestStep /\ nodes[i].id \in {n.id : n \in evicted'}
     /\ \A i \in 1..Len(edges) :
          (\A j \in 1..Len(edges') : Pair(edges'[j]) # Pair(edges[i])) =>
            /\ IngestStep
            /\ Pair(edges[i]) \cap {n.id : n \in evicted'} # {}
    ]_vars

\* C12 witness: a recall has lowered the weight of an edge that is still in
\* the list with both its endpoints, and a later ingest has deleted a node.
C12_Witness ==
  /\ recalls >= 1
  /\ evicted # {}
  /\ \E e \in EdgeIdx : /\ edges[e].lastReinforced = edges[e].createdAt
                        /\ edges[e].createdAt < now
                        /\ edges[e].weight < W_ONE
                        /\ edges[e].type = "emotional"
                        /\ HasNode(nodes, edges[e].source)
                        /\ HasNode(nodes, edges[e].target)

\* The ingest call of this step, when the step is an ingest.
ThisIngest == history'[Len(history')]

\* The ids of the emotion nodes for label in node table ns.
EmotionNodes(ns, label) ==
  {ns[i].id : i \in {j \in 1..Len(ns) :
                       ns[j].type = "emotion" /\ ns[j].content = label}}

\* Exactly one edge of list es joins a and b, and it is emotional with
\* weight 1.0.
OneEmotionalLink(es, a, b) ==
  LET links == {i \in 1..Len(es) : Pair(es[i]) = {a, b}}
  IN /\ Cardinality(links) = 1
     /\ \A i \in links : es[i].type = "emotional" /\ es[i].weight = W_ONE

\* C13: when ingest(content, category, label) returns id n, exactly one
\* edge joins n and the emotion node for label, and it is emotional with
\* weight 1.0; when no emotion node for label existed before the call the
\* call has created the node "emo_" + label, and otherwise the emotion
\* nodes for label are the ones there were before.
C13_EmotionalLink ==
  [][IngestStep =>
       IF EmotionNodes(nodes, ThisIngest.label) = {}
       THEN /\ EmotionNodes(nodes', ThisIngest.label)
                 = {EmoId(ThisIngest.label)}
            /\ OneEmotionalLink(edges', ThisIngest.id,
                                EmoId(ThisIngest.label))
       ELSE /\ EmotionNodes(nodes', ThisIngest.label)
                 = EmotionNodes(nodes, ThisIngest.label)
            /\ \E emo \in EmotionNodes(nodes, ThisIngest.label) :
                 OneEmotionalLink(edges', ThisIngest.id, emo)
    ]_vars

\* The nodes an ingest step can link its new node to by temporal edges:
\* those in the table when the ingest sorts it (the ones it leaves and the
\* ones its pruning pass deletes afterwards), but the new node and the
\* emotion node the ingest resolved.
Candidates ==
  {n \in {nodes'[i] : i \in 1..Len(nodes')} \cup evicted' :
     n.id # ThisIngest.id /\ n.id # calls'[1].target}

\* The temporal edges an ingest step appends to the edge list.
NewTemporal ==
  {i \in (Len(edges) + 1)..Len(preSweep') : preSweep'[i].type = "temporal"}

\* C14: an ingest creates min(3, m) temporal edges, m the number of nodes
\* other than the new node and the resolved emotion node; they have the
\* weights 0.8, 0.6, 0.4 in turn, each joins the new node and one of those
\* nodes, and a node joined with a greater weight, or joined at all, is not
\* older than a node joined with a smaller weight, or not joined.
C14_TemporalFan ==
  [][IngestStep =>
       /\ Cardinality(NewTemporal) = Min(3, Cardinality(Candidates))
       /\ \A r \in 0..(Cardinality(NewTemporal) - 1) :
            \E i \in NewTemporal : preSweep'[i].weight = TemporalWeight(r)
       /\ \A i \in NewTemporal :
            \E c \in Candidates :
              /\ Pair(preSweep'[i]) = {ThisIngest.id, c.id}
              /\ \A d \in Candidates :
                   (\A j \in NewTemporal :
                      Pair(preSweep'[j]) = {ThisIngest.id, d.id}
                        => preSweep'[j].weight < preSweep'[i].weight)
                   => d.timestamp <= c.timestamp
    ]_vars

\* C15: when ingest returns, the node table holds a node with the id
\* returned, the content and the category passed.
C15_IngestAccepts ==
  [][IngestStep =>
       \E i \in 1..Len(nodes') :
         /\ nodes'[i].id = ThisIngest.id
         /\ nodes'[i].content = ThisIngest.content
         /\ nodes'[i].type = ThisIngest.type
    ]_vars

\* The lower-case words of a query, split at the spaces.
WordsOf ==
  [s \in Strings |-> LET words == Split(ToLowerCase(Chars(s)))
                     IN {words[i] : i \in 1..Len(words)}]

QueryWords(query) == WordsOf[query]

\* Node n is an emotion node for the label, or its content contains, up to
\* case, a word of the query longer than the minimum length.
Matches(n, query, label) ==
  \/ n.type = "emotion" /\ n.content = label
  \/ \E w \in QueryWords(query) :
       /\ Len(w) > MIN_TOKEN_LENGTH
       /\ Includes(LowerCaseOf[n.content], w)

\* C16: the entry points of a recall are exactly the nodes that are an
\* emotion node whose content is the label or whose content contains, up to
\* case, a query token longer than the minimum length; and when the query
\* has no such token and no emotion node matches the label, recall returns
\* the empty result.
C16_EntryPoints ==
  [][RecallStep =>
       /\ {lastRecall'.entries[i] : i \in 1..Len(lastRecall'.entries)}
            = {nodes[i].id : i \in {j \in 1..Len(nodes) :
                 Matches(nodes[j], lastRecall'.query, lastRecall'.label)}}
       /\ (/\ \A w \in QueryWords(lastRecall'.query) :
                Len(w) <= MIN_TOKEN_LENGTH
           /\ EmotionNodes(nodes, lastRecall'.label) = {})
          => lastRecall'.lines = << >>
    ]_vars

\* C16 witness: a recall has returned nothing on a graph that holds a node
\* whose content contains a word of the query of the minimum length, and
\* emotion nodes for another label only.
C16_Witness ==
  /\ lastRecall.query = "nigh owls"
  /\ lastRecall.label = "NEUTRAL"
  /\ lastRecall.lines = << >>
  /\ \E i \in 1..Len(nodes) : nodes[i].content = "Night owl"
  /\ \E i \in 1..Len(nodes) : nodes[i].type = "emotion"
  /\ Len(history) = MaxQueryIngests

\* The edges of list es recall follows from node id.
Followed(es, id) ==
  {i \in 1..Len(es) : id \in Pair(es[i]) /\ es[i].weight > W_LINK}

\* C17: the lines of a recall are pairwise different, and they include the
\* line of every entry point and, for every edge of weight above 0.4 at an
\* entry point, the line of the node at its other end.
C17_DedupComplete ==
  [][RecallStep =>
       LET lines == lastRecall'.lines
           has(l) == \E k \in 1..Len(lines) : lines[k] = l
       IN /\ \A i, j \in 1..Len(lines) : i # j => lines[i] # lines[j]
          /\ \A n \in 1..Len(nodes) :
               Matches(nodes[n], lastRecall'.query, lastRecall'.label) =>
                 /\ has(EntryLine(nodes[n]))
                 /\ \A e \in Followed(edges', nodes[n].id) :
                      \A o \in 1..Len(nodes) :
                        Pair(edges'[e]) = {nodes[n].id, nodes[o].id}
                          => has(LinkLine(edges'[e], nodes[o]))
    ]_vars

\* C17 witness: the last recall had two entry points joined to one and the
\* same third node by edges of one type and of weight above 0.4, and an
\* entry point with an edge it did not follow.
C17_Witness ==
  /\ \E a, b \in 1..Len(lastRecall.entries) :
       /\ a # b
       /\ \E o \in 1..Len(nodes) : \E ea, eb \in EdgeIdx :
            /\ Pair(edges[ea]) = {lastRecall.entries[a], nodes[o].id}
            /\ Pair(edges[eb]) = {lastRecall.entries[b], nodes[o].id}
            /\ nodes[o].id \notin {lastRecall.entries[a], lastRecall.entries[b]}
            /\ edges[ea].type = edges[eb].type
            /\ edges[ea].weight > W_LINK
            /\ edges[eb].weight > W_LINK
  /\ \E a \in 1..Len(lastRecall.entries) : \E e \in EdgeIdx :
       /\ lastRecall.entries[a] \in Pair(edges[e])
       /\ edges[e].weight <= W_LINK

\* The clock value of the k-th ingest.
IngestAt(k) == history[k].at

\* C18: at most one write is pending, and it is due one debounce window
\* after the last ingest; every write is issued one window after the last
\* ingest before it; of two ingests less than a window apart the first is
\* followed by no write of its own; and the ingests up to the last one are
\* followed by exactly one write or by the one pending.
C18_Debounce ==
  /\ Cardinality(timers) <= 1
  /\ \A t \in timers :
       /\ history # << >>
       /\ t.due = IngestAt(Len(history)) + SAVE_DEBOUNCE_MS
  /\ \A k \in 1..Len(writes) :
       /\ writes[k].n >= 1
       /\ writes[k].at = IngestAt(writes[k].n) + SAVE_DEBOUNCE_MS
  /\ \A k, l \in 1..Len(writes) : k # l => writes[k].n # writes[l].n
  /\ \A i \in 1..(Len(history) - 1) :
       IngestAt(i + 1) - IngestAt(i) < SAVE_DEBOUNCE_MS
         => \A k \in 1..Len(writes) : writes[k].n # i
  /\ history # << >> =>
       (timers = {} <=> \E k \in 1..Len(writes) : writes[k].n = Len(history))

\* C18 witness: three ingests, each less than a window after the one
\* before, then one write, a window after the last of them, and none
\* pending.
C18_Witness ==
  /\ Len(history) = 3
  /\ IngestAt(2) > IngestAt(1)
  /\ IngestAt(2) - IngestAt(1) < SAVE_DEBOUNCE_MS
  /\ IngestAt(3) - IngestAt(2) < SAVE_DEBOUNCE_MS
  /\ Len(writes) = 1
  /\ writes[1].ok
  /\ writes[1].at = IngestAt(3) + SAVE_DEBOUNCE_MS
  /\ timers = {}

\* C19: every operation that changes the graph schedules a write, so when
\* no write is pending and the last write did not fail, the stored record
\* is the graph in memory (the empty graph when nothing is stored).
C19_WriteBehind ==
  (timers = {} /\ (writes = << >> \/ writes[Len(writes)].ok)) =>
    /\ stored.nodes = nodes
    /\ stored.edges = edges

\* A step in which a write to localStorage fails.
FailedWriteStep ==
  Len(writes') > Len(writes) /\ ~writes'[Len(writes')].ok

\* C20: a failed write happens in no step of ingest or recall, and it
\* leaves the graph in memory, the record stored before and the handle of
\* the debounce as they were.
C20_FailureAbsorbed ==
  [][FailedWriteStep =>
       /\ ~IngestStep
       /\ ~RecallStep
       /\ nodes' = nodes
       /\ edges' = edges
       /\ stored' = stored
       /\ saveTimeout' = saveTimeout
    ]_vars

\* C20 witness: a write failed with a graph in memory; later an ingest added
\* its node and edge to that graph, a recall decayed it, and the write the
\* ingest scheduled stored it.
C20_Witness ==
  /\ Len(writes) = 2
  /\ ~writes[1].ok
  /\ writes[2].ok
  /\ writes[1].n >= 1
  /\ writes[2].n > writes[1].n
  /\ recalls >= 1
  /\ stored.present
  /\ stored.nodes = nodes
  /\ \E e \in EdgeIdx : edges[e].weight < W_ONE /\ edges[e].type = "emotional"

\* C21: every change of the graph is followed by an update event, also
\* when the write for it fails or a later change cancels it: once no
\* callback is pending, an event has been dispatched after the last ingest.
C21_UpdateNotification ==
  (history # << >> /\ timers = {}) =>
    \E k \in 1..Len(writes) : writes[k].n = Len(history) /\ writes[k].event

\* C22: whatever is persisted, after construction the graph is a graph
\* (the one persisted or the empty one), and no call of ingest or recall
\* throws.
C22_StartupFallback == graphKind = "graph" /\ thrown = "none"

\* C23: after a full wipe of localStorage, the record under the key holds
\* no node that was ingested before the wipe.
C23_FullWipe ==
  (wipedAt >= 0 /\ stored.present) =>
    \A i \in 1..wipedAt : ~HasNode(stored.nodes, history[i].id)

\* The place in history of the first ingest under label, 0 if there is none.
FirstUnder(label) ==
  IF \E i \in 1..Len(history) : history[i].label = label
  THEN CHOOSE i \in 1..Len(history) :
         /\ history[i].label = label
         /\ \A j \in 1..(i - 1) : history[j].label # label
  ELSE 0

\* The capacity pass of the last ingest is complete on table ns and list es.
PassComplete(ns, es) ==
  /\ PruneNodes(ns) = ns
  /\ \A i \in 1..Len(es) : HasNode(ns, es[i].source) /\ HasNode(ns, es[i].target)

\* C24: with interleaved turns every ingest and recall runs as a whole: the
\* emotion node of a label is created once, by the first ingest under the
\* label, however many turns ingest under it, and the recall of a turn reads
\* the graph its own ingest left, with the capacity pass complete.
C24_SerializedAccess ==
  /\ \A i \in 1..Len(nodes) :
       nodes[i].type = "emotion" =>
         /\ Cardinality(EmotionNodes(nodes, nodes[i].content)) = 1
         /\ FirstUnder(nodes[i].content) # 0
         /\ nodes[i].timestamp = history[FirstUnder(nodes[i].content)].at
  /\ \A t \in 1..MaxTurns :
       turns[t].pc = "ingested" =>
         /\ PassComplete(nodes, edges)
         /\ history[Len(history)].content = turns[t].message
         /\ history[Len(history)].label = turns[t].emotion
         /\ \A u \in 1..MaxTurns : turns[u].pc = "ingested" => u = t

\* C24 witness: a second turn is about to recall while the first waits for
\* its reply; both ingested under one label at different times, and the
\* second ingest's pass deleted a node.
C24_Witness ==
  /\ turns[1].pc = "awaiting"
  /\ turns[2].pc = "ingested"
  /\ turns[1].emotion = turns[2].emotion
  /\ history[1].at < history[Len(history)].at
  /\ evicted # {}

\* C30: the recall of a turn, made right after the turn's ingest with the
\* same message and label, returns a non-empty text: the descriptor of the
\* label's emotion node is one of its lines.
C30_TurnRecallNonEmpty ==
  recalls > 0 =>
    /\ lastRecall.lines # << >>
    /\ \E i \in 1..Len(lastRecall.lines) :
         /\ Len(lastRecall.lines[i]) > 0
         /\ lastRecall.lines[i]
              = EntryLine([type |-> "emotion", content |-> lastRecall.label])

\* C30 witness: a turn recalled with a message that has no token, after an
\* ingest whose capacity pass deleted a node and kept the emotion node.
C30_Witness ==
  /\ recalls > 0
  /\ Tokens(lastRecall.query) = << >>
  /\ evicted # {}
  /\ \E t \in 1..MaxTurns : turns[t].pc = "awaiting"

\* The place of line l in the sequence lines, 0 if it is not there.
LineIdx(lines, l) ==
  IF \E k \in 1..Len(lines) : lines[k] = l
  THEN CHOOSE k \in 1..Len(lines) : lines[k] = l
  ELSE 0

\* C25: a neighbour descriptor is in the result of a recall only over an
\* edge at an entry point whose weight after decay is strictly above 0.4:
\* every line is the descriptor of an entry point or the descriptor of the
\* node at the other end of such an edge.
C25_StrictThreshold ==
  [][RecallStep =>
       \A k \in 1..Len(lastRecall'.lines) :
         \E n \in 1..Len(nodes) :
           /\ Matches(nodes[n], lastRecall'.query, lastRecall'.label)
           /\ \/ lastRecall'.lines[k] = EntryLine(nodes[n])
              \/ \E e \in 1..Len(edges'), o \in 1..Len(nodes) :
                   /\ Pair(edges'[e]) = {nodes[n].id, nodes[o].id}
                   /\ edges'[e].weight > W_LINK
                   /\ lastRecall'.lines[k] = LinkLine(edges'[e], nodes[o])
    ]_vars

\* C25 witness: the last recall had an entry point with a temporal edge of
\* weight exactly 0.4, the descriptor of the node at its other end is not
\* in the result, and the result has a neighbour descriptor.
C25_Witness ==
  /\ \E a \in 1..Len(lastRecall.entries), e \in EdgeIdx, o \in 1..Len(nodes) :
       /\ Pair(edges[e]) = {lastRecall.entries[a], nodes[o].id}
       /\ edges[e].type = "temporal"
       /\ edges[e].weight = W_LINK
       /\ LineIdx(lastRecall.lines, LinkLine(edges[e], nodes[o])) = 0
  /\ Len(lastRecall.lines) > Len(lastRecall.entries)

\* The line added at each place recall visits, the places numbered in the
\* order of the visit: an entry point, at its place in table ns, then the
\* edges of list es followed from it whose other end is in the table.
PlaceLines(ns, es, entries) ==
  LET width == Len(es) + 1
      ends(n, f) == {o \in 1..Len(ns) : Pair(es[f]) = {ns[n].id, ns[o].id}}
      at == {NodeIdx(ns, entries[i]) : i \in 1..Len(entries)}
      over(n) == {n * width + f : f \in {g \in Followed(es, ns[n].id) :
                                            ends(n, g) # {}}}
      places == {n * width : n \in at} \cup UNION {over(n) : n \in at}
  IN [p \in places |->
        IF p % width = 0 THEN EntryLine(ns[p \div width])
        ELSE LinkLine(es[p % width],
                      ns[CHOOSE o \in ends(p \div width, p % width) : TRUE])]

\* The places at which line l is added.
Origins(table, l) == {p \in DOMAIN table : table[p] = l}

\* The first of a non-empty set of places.
FirstOf(places) == CHOOSE p \in places : \A q \in places : p <= q

\* The place at which each of the lines is added first, 0 for a line that
\* is added nowhere.
FirstPlaces(table, lines) ==
  [k \in 1..Len(lines) |->
     IF Origins(table, lines[k]) = {} THEN 0
     ELSE FirstOf(Origins(table, lines[k]))]

\* Every line is added somewhere, and the lines stand in the order of the
\* places at which they are added first.
InOrder(ns, es, entries, lines) ==
  \A table \in {PlaceLines(ns, es, entries)} :
    \A first \in {FirstPlaces(table, lines)} :
      /\ \A k \in 1..Len(first) : first[k] # 0
      /\ \A k \in 1..(Len(first) - 1) : first[k] < first[k + 1]

\* C26: the lines of a recall are in insertion order: the entry points are
\* taken in node-table order, the entry point's own descriptor first and
\* then its neighbours in edge-list order, each line at the place it is
\* added first, whatever the weights.
C26_InsertionOrder ==
  [][RecallStep =>
       /\ \A i \in 1..(Len(lastRecall'.entries) - 1) :
            NodeIdx(nodes, lastRecall'.entries[i])
              < NodeIdx(nodes, lastRecall'.entries[i + 1])
       /\ InOrder(nodes, edges', lastRecall'.entries, lastRecall'.lines)
    ]_vars

\* C26 witness: the last recall had two entry points, and at one of them
\* the descriptor over a lighter edge stands before the descriptor over a
\* heavier edge later in the list.
C26_Witness ==
  /\ Len(lastRecall.entries) > 1
  /\ \E a \in 1..Len(lastRecall.entries), e1, e2 \in EdgeIdx,
        o1, o2 \in 1..Len(nodes) :
       /\ e1 < e2
       /\ Pair(edges[e1]) = {lastRecall.entries[a], nodes[o1].id}
       /\ Pair(edges[e2]) = {lastRecall.entries[a], nodes[o2].id}
       /\ W_LINK < edges[e1].weight
       /\ edges[e1].weight < edges[e2].weight
       /\ LineIdx(lastRecall.lines, LinkLine(edges[e1], nodes[o1])) > 0
       /\ LineIdx(lastRecall.lines, LinkLine(edges[e1], nodes[o1]))
            < LineIdx(lastRecall.lines, LinkLine(edges[e2], nodes[o2]))

\* The nodes of table ns that are of type emotion, and the others.
EmotionTyped(ns) == {i \in 1..Len(ns) : ns[i].type = "emotion"}
OtherTyped(ns) == {i \in 1..Len(ns) : ns[i].type # "emotion"}

\* C27: from the empty graph on, the node table holds at most MAX_NODES
\* nodes that are not of type emotion, and at most MAX_NODES nodes more than
\* it holds nodes of type emotion.
C27_CapacityBound ==
  /\ Cardinality(OtherTyped(nodes)) <= MAX_NODES
  /\ Len(nodes) <= MAX_NODES + Cardinality(EmotionTyped(nodes))

\* C27 witness: an ingested node has been deleted, and the table is above
\* MAX_NODES with MAX_NODES nodes that are not of type emotion.
C27_Witness ==
  /\ \E i \in 1..Len(history) : history[i].id \notin NodeIds
  /\ Len(nodes) > MAX_NODES
  /\ Cardinality(OtherTyped(nodes)) = MAX_NODES

C29_NoSelfLoops == \A e \in EdgeIdx : edges[e].source # edges[e].target

=============================================================================
